---- MODULE Spec2Model ----
(***************************************************************************)
(* Topology construction of the Catan map (logic/catan/src/lib.rs):        *)
(* decode_config -> traverse_tiles (BFS over the placed tiles) ->          *)
(* derive_settle_place_roads_relations (road -> settle place inversion).   *)
(*                                                                         *)
(* IDs are zero based as in the code; the tables are sequences, so the     *)
(* entry of ID k is element k + 1.                                         *)
(***************************************************************************)
EXTENDS Integers, Sequences, FiniteSets, TLC

\* Longest tile_placement list that is enumerated.
MaxTiles == 3
\* Tiles are placed at coordinates below MaxCoord (and inside the map).
MaxCoord == 4
\* map_size values that are enumerated: the two maps of the unit tests and a
\* narrow map with more than 256 cells, where a wrapped coordinate stays inside
\* the backing vector.
MapSizes == {<<3, 3>>, <<4, 4>>, <<2, 200>>}

\* Number of values of a u8.
U8 == 256
\* Capacity N of ArrayVec<RoadID, 3>.
ArrayVecCapacity == 3
\* The player count the unit tests pass to decode_config.
TestPlayerCount == 2

VARIABLES
    map_size,            \* MapConfig.map_size, [width, height]
    tile_placement,      \* MapConfig.tile_placement, index = TileID
    overflow_checks,     \* TRUE: build with overflow checks (debug), FALSE: wrapping (release)
    pc,                  \* "traverse", "invert", "done", "fault"
    fault,               \* "none" or the kind of panic that ended the run
    queue,               \* VecDeque of <<TileID, position>>
    processed_tiles,     \* HashSet<TileID>
    settle_places_count, \* u16 counter of allocated SettlePlaceIDs
    tile_settle_places,  \* TileRelations<EnumMap<HexVertex, SettlePlaceID>>
    tile_roads,          \* TileRelations<EnumMap<HexSide, RoadID>>
    road_settle_places,  \* RoadRelations<[SettlePlaceID; 2]>
    neighbor_status,     \* neighbor_status of the latest loop iteration
    visit_order,         \* history: the <<tile_id, pos>> of every iteration that was not skipped
    settle_place_roads,  \* SettleRelations<ArrayVec<RoadID, 3>> under construction
    road_idx,            \* position of the inverter's iterator over road_settle_places
    player_count,        \* decode_config's player_count: u8
    error,               \* << >> or <<n>>: decode_config returned Err(InvalidPlayerCount(n))
    first_run,           \* << >> or <<r>>: the input and result of an earlier run, kept to compare
    hash_seed,           \* the RandomState of this run's HashSet
    list_values,         \* AdjacencyList<TileID, V>.values of a table used on its own
    list_pushed,         \* history: <<returned id, value>> of every push that returned
    list_fault,          \* TRUE: a push on that table panicked
    vec_storage,         \* ArrayVec.storage, slot -> {} (uninitialised) or {value}
    vec_size,            \* ArrayVec.size
    vec_pushed,          \* history: the value of every push that returned
    vec_fault,           \* TRUE: a push on that ArrayVec panicked
    vec_drop_iter,       \* {} or {k}: Drop::drop runs and its iterator has yielded k items
    vec_released         \* history: slot -> number of drop_in_place calls on it

traversal_vars ==
    <<map_size, tile_placement, overflow_checks, pc, fault, queue,
      processed_tiles, settle_places_count, tile_settle_places, tile_roads,
      road_settle_places, neighbor_status, visit_order, settle_place_roads,
      road_idx>>
config_vars == <<player_count, error>>
rerun_vars == <<first_run, hash_seed>>
list_vars == <<list_values, list_pushed, list_fault>>
vec_vars == <<vec_storage, vec_size, vec_pushed, vec_fault, vec_drop_iter, vec_released>>
\* What one loop iteration of traverse_tiles or of the inverter never touches.
outside_vars == <<config_vars, rerun_vars, list_vars, vec_vars>>

vars == <<traversal_vars, outside_vars>>

----------------------------------------------------------------------------
(* types.rs: hex geometry *)

\* enum HexSide, in declaration order (the iteration order of EnumMap).
HexSides == <<"NorthWest", "NorthEast", "West", "East", "SouthWest", "SouthEast">>
HexSide == {HexSides[i] : i \in 1..6}

\* enum HexVertex, in declaration order.
HexVertices == <<"North", "NorthWest", "NorthEast", "SouthWest", "SouthEast", "South">>
HexVertex == {HexVertices[i] : i \in 1..6}

opposite(side) ==
    CASE side = "NorthWest" -> "SouthEast"
      [] side = "NorthEast" -> "SouthWest"
      [] side = "West"      -> "East"
      [] side = "East"      -> "West"
      [] side = "SouthWest" -> "NorthEast"
      [] side = "SouthEast" -> "NorthWest"

connected_vertices(side) ==
    CASE side = "NorthWest" -> <<"NorthWest", "North">>
      [] side = "NorthEast" -> <<"North", "NorthEast">>
      [] side = "East"      -> <<"NorthEast", "SouthEast">>
      [] side = "SouthEast" -> <<"SouthEast", "South">>
      [] side = "SouthWest" -> <<"South", "SouthWest">>
      [] side = "West"      -> <<"SouthWest", "NorthWest">>

----------------------------------------------------------------------------
(* lib.rs: lookup tables and the placement grid *)

\* vertex -> two <<neighbouring side, vertex of that neighbour>> pairs.
settle_places_lookup ==
    [v \in HexVertex |->
        CASE v = "North"     -> << <<"NorthWest", "SouthEast">>, <<"NorthEast", "SouthEast">> >>
          [] v = "NorthEast" -> << <<"NorthEast", "South">>,     <<"East", "NorthWest">> >>
          [] v = "SouthEast" -> << <<"East", "SouthWest">>,      <<"SouthEast", "North">> >>
          [] v = "South"     -> << <<"SouthEast", "SouthWest">>, <<"SouthWest", "North">> >>
          [] v = "SouthWest" -> << <<"SouthWest", "North">>,     <<"West", "SouthEast">> >>
          [] v = "NorthWest" -> << <<"West", "NorthEast">>,      <<"NorthWest", "South">> >>]

\* Offsets that take the table of the even rows for every row.
neighbor_offsets_ignoring_parity(y) ==
    [s \in HexSide |->
        CASE s = "NorthWest" -> <<-1, -1>>
          [] s = "NorthEast" -> <<0, -1>>
          [] s = "West"      -> <<-1, 0>>
          [] s = "East"      -> <<1, 0>>
          [] s = "SouthWest" -> <<-1, 1>>
          [] s = "SouthEast" -> <<0, 1>>]

\* The signed offsets that neighbor_positions adds to [x, y], by row parity.
neighbor_offsets(y) ==
    IF y % 2 = 0
    THEN [s \in HexSide |->
            CASE s = "NorthWest" -> <<-1, -1>>
              [] s = "NorthEast" -> <<0, -1>>
              [] s = "West"      -> <<-1, 0>>
              [] s = "East"      -> <<1, 0>>
              [] s = "SouthWest" -> <<-1, 1>>
              [] s = "SouthEast" -> <<0, 1>>]
    ELSE [s \in HexSide |->
            CASE s = "NorthWest" -> <<0, -1>>
              [] s = "NorthEast" -> <<1, -1>>
              [] s = "West"      -> <<-1, 0>>
              [] s = "East"      -> <<1, 0>>
              [] s = "SouthWest" -> <<0, 1>>
              [] s = "SouthEast" -> <<1, 1>>]

\* TRUE iff one of the u8 additions / subtractions of neighbor_positions leaves
\* 0..255: a panic when the build checks overflow.
neighbor_positions_overflows(pos) ==
    \E s \in HexSide :
        \/ pos[1] + neighbor_offsets(pos[2])[s][1] \notin 0..(U8 - 1)
        \/ pos[2] + neighbor_offsets(pos[2])[s][2] \notin 0..(U8 - 1)

\* The value neighbor_positions returns when nothing panics: u8 arithmetic wraps.
neighbor_positions(pos) ==
    [s \in HexSide |->
        <<(pos[1] + neighbor_offsets(pos[2])[s][1]) % U8,
          (pos[2] + neighbor_offsets(pos[2])[s][2]) % U8>>]

\* Matrix::index: the position in data of [x, y]; x is not compared to width.
matrix_index(width, pos) == pos[1] + pos[2] * width

\* derive_2d_map: data[i] is {} (None) or {TileID} (Some); a later tile of the
\* list overwrites an earlier one written to the same element.
derive_2d_map(size, placement) ==
    [i \in 0..(size[1] * size[2] - 1) |->
        LET hits == {k \in 1..Len(placement) : matrix_index(size[1], placement[k]) = i}
        IN  IF hits = {} THEN {}
            ELSE {(CHOOSE k \in hits : \A j \in hits : j <= k) - 1}]

map_2d == derive_2d_map(map_size, tile_placement)

\* Vec bounds check of map_2d[pos].
matrix_in_range(pos) ==
    matrix_index(map_size[1], pos) < map_size[1] * map_size[2]

\* enum VisitStatus, as computed by the closure of lines 162-166.
visit_status(pos, processed) ==
    LET cell == map_2d[matrix_index(map_size[1], pos)]
    IN  IF cell = {} THEN [kind |-> "NotATile"]
        ELSE LET id == CHOOSE t \in cell : TRUE
             IN  IF id \in processed
                 THEN [kind |-> "Processed", id |-> id]
                 ELSE [kind |-> "NotVisited", id |-> id, pos |-> pos]

----------------------------------------------------------------------------
(* adjacency_list.rs *)

\* Index<K>: Vec bounds check of values[index.into()].
adjacency_in_range(list, id) == id < Len(list)
adjacency_index(list, id) == list[id + 1]
\* push: the id is the length before the value is appended.
adjacency_push_id(list) == Len(list)
\* A push that stores the value in front of the others.
adjacency_push_front(list, value) == <<value>> \o list
adjacency_push(list, value) == Append(list, value)

----------------------------------------------------------------------------
(* traverse_tiles: the body of one loop iteration *)

EmptyMap == [x \in {} |-> 0]

\* Lines 172-183: the closure is applied to the vertices in enum order; it
\* reads tile_settle_places and increments settle_places_count.
RECURSIVE settle_places_from(_, _, _, _)
settle_places_from(i, acc, status, tsp) ==
    IF i > Len(HexVertices) \/ acc.fault THEN acc
    ELSE
    LET v == HexVertices[i]
        a == settle_places_lookup[v][1]
        b == settle_places_lookup[v][2]
    IN  IF status[a[1]].kind = "Processed"
        THEN IF adjacency_in_range(tsp, status[a[1]].id)
             THEN settle_places_from(i + 1,
                    [acc EXCEPT !.ids = @ @@ (v :> adjacency_index(tsp, status[a[1]].id)[a[2]])],
                    status, tsp)
             ELSE [acc EXCEPT !.fault = TRUE]
        ELSE IF status[b[1]].kind = "Processed"
        THEN IF adjacency_in_range(tsp, status[b[1]].id)
             THEN settle_places_from(i + 1,
                    [acc EXCEPT !.ids = @ @@ (v :> adjacency_index(tsp, status[b[1]].id)[b[2]])],
                    status, tsp)
             ELSE [acc EXCEPT !.fault = TRUE]
        ELSE settle_places_from(i + 1,
                    [acc EXCEPT !.ids = @ @@ (v :> acc.count), !.count = @ + 1],
                    status, tsp)

\* settle_places_of with the counter advanced once before the first vertex.
settle_places_of_skipping_an_id(status, tsp, count) ==
    settle_places_from(1, [ids |-> EmptyMap, count |-> count + 1, fault |-> FALSE],
                       status, tsp)

\* settle_places_of that hands out new IDs but reports the counter it was given.
settle_places_of_keeping_count(status, tsp, count) ==
    [settle_places_from(1, [ids |-> EmptyMap, count |-> count, fault |-> FALSE],
                        status, tsp) EXCEPT !.count = count]

\* settle_places_of where a vertex with both named neighbours Processed takes
\* the ID found through the second pair of its lookup entry.
settle_places_of_second_entry_wins(status, tsp, count) ==
    LET r == settle_places_from(1, [ids |-> EmptyMap, count |-> count, fault |-> FALSE],
                                status, tsp)
        second(v) == settle_places_lookup[v][2]
    IN  [r EXCEPT !.ids =
            [v \in DOMAIN r.ids |->
                IF /\ status[settle_places_lookup[v][1][1]].kind = "Processed"
                   /\ status[second(v)[1]].kind = "Processed"
                   /\ adjacency_in_range(tsp, status[second(v)[1]].id)
                THEN adjacency_index(tsp, status[second(v)[1]].id)[second(v)[2]]
                ELSE r.ids[v]]]

settle_places_of(status, tsp, count) ==
    settle_places_from(1, [ids |-> EmptyMap, count |-> count, fault |-> FALSE], status, tsp)

\* Lines 189-197: the closure is applied to the sides in enum order; it reads
\* tile_roads and pushes to road_settle_places.
RECURSIVE roads_from(_, _, _, _, _)
roads_from(i, acc, status, settle_places, troads) ==
    IF i > Len(HexSides) \/ acc.fault THEN acc
    ELSE
    LET side == HexSides[i]
    IN  IF status[side].kind = "Processed"
        THEN IF adjacency_in_range(troads, status[side].id)
             THEN roads_from(i + 1,
                    [acc EXCEPT !.ids = @ @@
                        (side :> adjacency_index(troads, status[side].id)[opposite(side)])],
                    status, settle_places, troads)
             ELSE [acc EXCEPT !.fault = TRUE]
        ELSE LET cv == connected_vertices(side)
                 connected_settle_places == <<settle_places[cv[1]], settle_places[cv[2]]>>
             IN  roads_from(i + 1,
                    [acc EXCEPT !.ids = @ @@ (side :> adjacency_push_id(acc.rsp)),
                                !.rsp = adjacency_push(@, connected_settle_places)],
                    status, settle_places, troads)

\* roads_of reading the tile's North and South settle places exchanged.
roads_of_with_poles_exchanged(status, settle_places, troads, rsp) ==
    roads_from(1, [ids |-> EmptyMap, rsp |-> rsp, fault |-> FALSE], status,
               [v \in HexVertex |->
                    settle_places[IF v = "North" THEN "South"
                                  ELSE IF v = "South" THEN "North" ELSE v]],
               troads)

roads_of(status, settle_places, troads, rsp) ==
    roads_from(1, [ids |-> EmptyMap, rsp |-> rsp, fault |-> FALSE],
               status, settle_places, troads)

\* Lines 203-207: the NotVisited neighbours, in side order.
RECURSIVE not_visited_from(_, _)
not_visited_from(i, status) ==
    IF i > Len(HexSides) THEN << >>
    ELSE LET st == status[HexSides[i]]
         IN  (IF st.kind = "NotVisited" THEN << <<st.id, st.pos>> >> ELSE << >>)
             \o not_visited_from(i + 1, status)

\* The same neighbours, enqueued from the last side to the first when the
\* hasher of this run's HashSet is keyed with an odd seed.
not_visited_in_hash_order(status) ==
    LET q == not_visited_from(1, status)
    IN  IF hash_seed % 2 = 0 THEN q ELSE [i \in 1..Len(q) |-> q[Len(q) + 1 - i]]

\* queue.extend(...) of lines 203-207: the iterator walks neighbor_status, an
\* EnumMap, in the order of enum HexSide.
not_visited(status) == not_visited_from(1, status)

----------------------------------------------------------------------------
(* array_vec.rs: the backing array *)

\* ArrayVec::new: N uninitialised slots; a slot is {} or {value}.
array_vec_new == [i \in 0..(ArrayVecCapacity - 1) |-> {}]
\* A write that lands on the last initialised slot.
array_vec_write_over_last(storage, size, value) ==
    [storage EXCEPT ![IF size = 0 THEN 0 ELSE size - 1] = {value}]
\* push, after the assertion: get_unchecked_mut(size).write(value).
array_vec_write(storage, size, value) == [storage EXCEPT ![size] = {value}]
\* A slice over the whole backing array, whatever the size.
array_vec_as_mut_whole_storage(storage, size) ==
    [i \in 1..ArrayVecCapacity |-> i - 1]
\* as_mut: the slice storage[..size], as the sequence of its slots.
array_vec_as_mut(storage, size) == [i \in 1..size |-> i - 1]
\* as_ref: the slice storage[..size] read as initialised values.
array_vec_as_ref(storage, size) ==
    [i \in 1..size |-> CHOOSE x \in storage[i - 1] : TRUE]

----------------------------------------------------------------------------
(* Inputs *)

Positions(size) ==
    {p \in (0..(MaxCoord - 1)) \X (0..(MaxCoord - 1)) : p[1] < size[1] /\ p[2] < size[2]}

\* In-bounds placements without overlap, of 1..MaxTiles tiles, in any order.
Placements(size) ==
    {pl \in UNION {[1..n -> Positions(size)] : n \in 1..MaxTiles} :
        \A i, j \in 1..Len(pl) : i # j => pl[i] # pl[j]}

NoStatus == [s \in HexSide |-> [kind |-> "NotATile"]]

\* The locals of traverse_tiles and of the inverter before the first iteration.
FreshRun ==
    /\ fault = "none"
    /\ processed_tiles = {}
    /\ settle_places_count = 0
    /\ tile_settle_places = << >>
    /\ tile_roads = << >>
    /\ road_settle_places = << >>
    /\ neighbor_status = NoStatus
    /\ visit_order = << >>
    /\ settle_place_roads = << >>
    /\ road_idx = 0

\* AdjacencyList::new and ArrayVec::new: the table and the vector that are
\* exercised on their own start empty.
NewList ==
    /\ list_values = << >>
    /\ list_pushed = << >>
    /\ list_fault = FALSE
NewVec ==
    /\ vec_storage = array_vec_new
    /\ vec_size = 0
    /\ vec_pushed = << >>
    /\ vec_fault = FALSE
    /\ vec_drop_iter = {}
    /\ vec_released = [i \in 0..(ArrayVecCapacity - 1) |-> 0]

\* decode_config has accepted the player count of the unit tests and
\* traverse_tiles has seeded its queue with tile 0.
Init ==
    /\ map_size \in MapSizes
    /\ tile_placement \in Placements(map_size)
    /\ overflow_checks \in BOOLEAN
    /\ player_count = TestPlayerCount
    /\ error = << >>
    /\ pc = "traverse"
    /\ queue = << <<0, tile_placement[1]>> >>
    /\ FreshRun
    /\ first_run = << >>
    /\ hash_seed = 0
    /\ NewList
    /\ NewVec

----------------------------------------------------------------------------
(* traverse_tiles: the loop *)

tile_id == queue[1][1]
pos == queue[1][2]

\* A skip that also takes a SettlePlaceID from the counter.
SkipProcessedTakingAnId ==
    /\ pc = "traverse"
    /\ queue # << >>
    /\ queue[1][1] \in processed_tiles
    /\ queue' = Tail(queue)
    /\ settle_places_count' = settle_places_count + 1
    /\ UNCHANGED <<outside_vars, map_size, tile_placement, overflow_checks, pc, fault,
                   processed_tiles, tile_settle_places, tile_roads, road_settle_places,
                   neighbor_status, visit_order, settle_place_roads, road_idx>>

\* Lines 155-158: the popped tile is in processed_tiles already.
SkipProcessed ==
    /\ pc = "traverse"
    /\ queue # << >>
    /\ tile_id \in processed_tiles
    /\ queue' = Tail(queue)
    /\ UNCHANGED <<outside_vars, map_size, tile_placement, overflow_checks, pc, fault,
                   processed_tiles, settle_places_count, tile_settle_places,
                   tile_roads, road_settle_places, neighbor_status, visit_order,
                   settle_place_roads, road_idx>>

Popped ==
    /\ pc = "traverse"
    /\ queue # << >>
    /\ tile_id \notin processed_tiles

Panic(kind) ==
    /\ pc' = "fault"
    /\ fault' = kind
    /\ queue' = Tail(queue)
    /\ processed_tiles' = processed_tiles \cup {tile_id}
    /\ visit_order' = Append(visit_order, <<tile_id, pos>>)
    /\ UNCHANGED <<outside_vars, map_size, tile_placement, overflow_checks,
                   settle_place_roads, road_idx>>

\* Line 162, neighbor_positions: arithmetic overflow panic (overflow checks on).
OverflowPanic ==
    /\ Popped
    /\ overflow_checks
    /\ neighbor_positions_overflows(pos)
    /\ Panic("overflow")
    /\ UNCHANGED <<settle_places_count, tile_settle_places, tile_roads,
                   road_settle_places, neighbor_status>>

NoOverflowPanic == ~overflow_checks \/ ~neighbor_positions_overflows(pos)

\* Line 162, map_2d[pos]: index out of bounds panic.
GridIndexPanic ==
    /\ Popped
    /\ NoOverflowPanic
    /\ \E s \in HexSide : ~matrix_in_range(neighbor_positions(pos)[s])
    /\ Panic("grid_index")
    /\ UNCHANGED <<settle_places_count, tile_settle_places, tile_roads,
                   road_settle_places, neighbor_status>>

StatusComputed ==
    /\ Popped
    /\ NoOverflowPanic
    /\ \A s \in HexSide : matrix_in_range(neighbor_positions(pos)[s])

status_now ==
    [s \in HexSide |->
        visit_status(neighbor_positions(pos)[s], processed_tiles \cup {tile_id})]

settle_now == settle_places_of(status_now, tile_settle_places, settle_places_count)
roads_now == roads_of(status_now, settle_now.ids, tile_roads, road_settle_places)

\* Lines 175 / 177 / 191: tile_settle_places[neighbor_id] or tile_roads[id]
\* index out of bounds panic.
table_index_panics == IF settle_now.fault THEN TRUE ELSE roads_now.fault

TableIndexPanic ==
    /\ StatusComputed
    /\ table_index_panics
    /\ Panic("table_index")
    /\ neighbor_status' = status_now
    /\ settle_places_count' = settle_now.count
    /\ road_settle_places' = IF settle_now.fault THEN road_settle_places ELSE roads_now.rsp
    /\ UNCHANGED <<tile_settle_places, tile_roads>>

\* Lines 152-207: one complete iteration for a tile that was not processed.
ProcessTile ==
    /\ StatusComputed
    /\ ~table_index_panics
    /\ processed_tiles' = processed_tiles \cup {tile_id}
    /\ neighbor_status' = status_now
    /\ settle_places_count' = settle_now.count
    /\ road_settle_places' = roads_now.rsp
    /\ tile_settle_places' = adjacency_push(tile_settle_places, settle_now.ids)
    /\ tile_roads' = adjacency_push(tile_roads, roads_now.ids)
    /\ queue' = Tail(queue) \o not_visited(status_now)
    /\ visit_order' = Append(visit_order, <<tile_id, pos>>)
    /\ UNCHANGED <<outside_vars, map_size, tile_placement, overflow_checks, pc, fault,
                   settle_place_roads, road_idx>>

\* Lines 152, 210-216 and 225-229: the queue is empty, traverse_tiles returns
\* and the inverter creates settle_places_count empty ArrayVecs.
FinishTraversal ==
    /\ pc = "traverse"
    /\ queue = << >>
    /\ pc' = "invert"
    /\ settle_place_roads' = [i \in 1..settle_places_count |-> << >>]
    /\ road_idx' = 0
    /\ UNCHANGED <<outside_vars, map_size, tile_placement, overflow_checks, fault, queue,
                   processed_tiles, settle_places_count, tile_settle_places,
                   tile_roads, road_settle_places, neighbor_status, visit_order>>

----------------------------------------------------------------------------
(* derive_settle_place_roads_relations and array_vec.rs *)

\* ArrayVec::push: assert!(self.size < N).
array_vec_has_room(vec) == Len(vec) < ArrayVecCapacity
array_vec_push(vec, value) == Append(vec, value)

\* invert_road with the push to the second endpoint left out.
invert_road_first_endpoint_only(spr, r, a, b) ==
    IF ~adjacency_in_range(spr, a) \/ ~array_vec_has_room(adjacency_index(spr, a))
    THEN << >>
    ELSE << [spr EXCEPT ![a + 1] = array_vec_push(@, r)] >>

\* Lines 232-233: the two pushes of one loop iteration, for road r = [a, b].
\* The result is << >> when an index is out of range or an ArrayVec is full.
invert_road(spr, r, a, b) ==
    IF ~adjacency_in_range(spr, a) \/ ~array_vec_has_room(adjacency_index(spr, a))
    THEN << >>
    ELSE LET spr1 == [spr EXCEPT ![a + 1] = array_vec_push(@, r)]
         IN  IF ~adjacency_in_range(spr1, b) \/ ~array_vec_has_room(adjacency_index(spr1, b))
             THEN << >>
             ELSE << [spr1 EXCEPT ![b + 1] = array_vec_push(@, r)] >>

next_road == adjacency_index(road_settle_places, road_idx)
inverted_now == invert_road(settle_place_roads, road_idx, next_road[1], next_road[2])

InvertRoad ==
    /\ pc = "invert"
    /\ road_idx < Len(road_settle_places)
    /\ inverted_now # << >>
    /\ settle_place_roads' = inverted_now[1]
    /\ road_idx' = road_idx + 1
    /\ UNCHANGED <<outside_vars, map_size, tile_placement, overflow_checks, pc, fault, queue,
                   processed_tiles, settle_places_count, tile_settle_places,
                   tile_roads, road_settle_places, neighbor_status, visit_order>>

\* ArrayVec::push assertion failure: a settle place would get a 4th road.
CapacityPanic ==
    /\ pc = "invert"
    /\ road_idx < Len(road_settle_places)
    /\ inverted_now = << >>
    /\ pc' = "fault"
    /\ fault' = "capacity"
    /\ UNCHANGED <<outside_vars, map_size, tile_placement, overflow_checks, queue,
                   processed_tiles, settle_places_count, tile_settle_places,
                   tile_roads, road_settle_places, neighbor_status, visit_order,
                   settle_place_roads, road_idx>>

\* Lines 236 and 85-106: the iterator is exhausted, decode_config returns Ok.
InvertDone ==
    /\ pc = "invert"
    /\ road_idx = Len(road_settle_places)
    /\ pc' = "done"
    /\ UNCHANGED <<outside_vars, map_size, tile_placement, overflow_checks, fault, queue,
                   processed_tiles, settle_places_count, tile_settle_places,
                   tile_roads, road_settle_places, neighbor_status, visit_order,
                   settle_place_roads, road_idx>>

Next ==
    \/ SkipProcessed
    \/ OverflowPanic
    \/ GridIndexPanic
    \/ TableIndexPanic
    \/ ProcessTile
    \/ FinishTraversal
    \/ InvertRoad
    \/ CapacityPanic
    \/ InvertDone

Spec == Init /\ [][Next]_vars

----------------------------------------------------------------------------
(* Reference geometry of the properties: the board as it physically is,    *)
(* with unbounded integer coordinates (odd rows are shifted half a cell to *)
(* the right, as neighbor_positions has it).                               *)

Tiles == 0..(Len(tile_placement) - 1)
PosOf(t) == tile_placement[t + 1]

\* The cell across side s of cell p, without u8 wrapping.
TrueNeighbor(p, s) ==
    <<p[1] + neighbor_offsets(p[2])[s][1], p[2] + neighbor_offsets(p[2])[s][2]>>

\* B is A's neighbour across side s.
NeighbourAcross(A, s, B) == PosOf(B) = TrueNeighbor(PosOf(A), s)

\* Corner v of cell p on a lattice where a cell is 2 wide and rows are 3 apart.
Corner(p, v) ==
    LET cx == 2 * p[1] + (p[2] % 2)
        cy == 3 * p[2]
    IN  CASE v = "North"     -> <<cx, cy - 2>>
          [] v = "NorthWest" -> <<cx - 1, cy - 1>>
          [] v = "NorthEast" -> <<cx + 1, cy - 1>>
          [] v = "SouthWest" -> <<cx - 1, cy + 1>>
          [] v = "SouthEast" -> <<cx + 1, cy + 1>>
          [] v = "South"     -> <<cx, cy + 2>>

Edge(p, s) == {Corner(p, connected_vertices(s)[1]), Corner(p, connected_vertices(s)[2])}

PhysicalCorners == {Corner(PosOf(t), v) : t \in Tiles, v \in HexVertex}
PhysicalEdges == {Edge(PosOf(t), s) : t \in Tiles, s \in HexSide}

\* Tiles reachable from tile 0 through side-adjacent placed tiles.
RECURSIVE ReachableFrom(_)
ReachableFrom(S) ==
    LET more == {t \in Tiles \ S : \E a \in S, s \in HexSide : NeighbourAcross(a, s, t)}
    IN  IF more = {} THEN S ELSE ReachableFrom(S \cup more)

Reachable == ReachableFrom({0})
Connected == Reachable = Tiles

TraversalPanics == {"overflow", "grid_index", "table_index"}
\* traverse_tiles has returned its result.
TraversalReturned == pc \in {"invert", "done"} \/ fault = "capacity"

\* What a reader of the result finds for TileID t.
StoredVertex(t, v) == adjacency_index(tile_settle_places, t)[v]
StoredRoad(t, s) == adjacency_index(tile_roads, t)[s]

----------------------------------------------------------------------------
(* Properties *)

\* C1: after traverse_tiles on an in-bounds, non-overlapping placement that is
\* connected from tile 0, tiles A and B that are neighbours across side s of A
\* store the same SettlePlaceIDs at the two corners they share: the first
\* vertex of s on A is the second vertex of opposite(s) on B and vice versa
\* (connected_vertices lists every side clockwise).
C1_SharedCornersAgree ==
    (TraversalReturned /\ Connected) =>
        \A A \in Tiles, B \in Tiles, s \in HexSide :
            NeighbourAcross(A, s, B) =>
                /\ adjacency_in_range(tile_settle_places, A)
                /\ adjacency_in_range(tile_settle_places, B)
                /\ StoredVertex(A, connected_vertices(s)[1])
                     = StoredVertex(B, connected_vertices(opposite(s))[2])
                /\ StoredVertex(A, connected_vertices(s)[2])
                     = StoredVertex(B, connected_vertices(opposite(s))[1])

\* C2: after traverse_tiles on an in-bounds, non-overlapping, connected
\* placement, the RoadID of A at side s equals the RoadID of its neighbour B at
\* opposite(s).
C2_SharedRoadsAgree ==
    (TraversalReturned /\ Connected) =>
        \A A \in Tiles, B \in Tiles, s \in HexSide :
            NeighbourAcross(A, s, B) =>
                /\ adjacency_in_range(tile_roads, A)
                /\ adjacency_in_range(tile_roads, B)
                /\ StoredRoad(A, s) = StoredRoad(B, opposite(s))

\* C3: for every connected placement, the entry at index t of both per-tile
\* tables was computed while tile t was processed, and no lookup of a Processed
\* neighbour's entry is out of range.
C3_TablesAlignedWithTileID ==
    Connected =>
        /\ fault # "table_index"
        /\ Len(tile_roads) = Len(tile_settle_places)
        /\ \A k \in 1..Len(tile_settle_places) : visit_order[k][1] = k - 1

\* C4: for every in-bounds, non-overlapping, connected placement the final
\* settle place count is the number of distinct physical corners and the number
\* of roads the number of distinct physical edges; the three tile map of the
\* unit test gives 13 and 15, and tile 1's NorthWest is tile 0's NorthEast.
C4_CountsArePhysical ==
    (TraversalReturned /\ Connected) =>
        /\ settle_places_count = Cardinality(PhysicalCorners)
        /\ Len(road_settle_places) = Cardinality(PhysicalEdges)
        /\ (map_size = <<4, 4>> /\ tile_placement = << <<1, 1>>, <<2, 1>>, <<2, 2>> >>) =>
                /\ settle_places_count = 13
                /\ Len(road_settle_places) = 15
                /\ StoredVertex(1, "NorthWest") = StoredVertex(0, "NorthEast")

OutOfBounds(p) == p[1] >= map_size[1] \/ p[2] >= map_size[2]
\* The iteration for position p got as far as the map_2d lookups.
LooksUp(p) == ~(overflow_checks /\ neighbor_positions_overflows(p))
\* The lookup map_2d[p] does not panic and finds no tile.
LookupFindsNoTile(p) ==
    /\ matrix_in_range(p)
    /\ map_2d[matrix_index(map_size[1], p)] = {}

\* C5: for a tile processed at x = 0 or y = 0 the computation of x - 1 / y - 1
\* raises no overflow panic, and every neighbour coordinate that left the u8
\* range below zero is looked up as 'no tile' without a panic.
C5_EdgeTilesDoNotFault ==
    \A k \in 1..Len(visit_order) :
        LET p == visit_order[k][2]
        IN  (p[1] = 0 \/ p[2] = 0) =>
                /\ ~(k = Len(visit_order) /\ fault = "overflow")
                /\ LooksUp(p) =>
                     \A s \in HexSide :
                        (TrueNeighbor(p, s)[1] < 0 \/ TrueNeighbor(p, s)[2] < 0)
                            => LookupFindsNoTile(neighbor_positions(p)[s])

\* C6: every Placement Grid lookup the traversal makes at a position outside
\* the declared width x height yields 'no tile': it neither panics nor returns
\* the TileID of the cell that x + y * width aliases.
C6_OutOfBoundsLookupIsNoTile ==
    \A k \in 1..Len(visit_order) :
        LET p == visit_order[k][2]
        IN  LooksUp(p) =>
                \A s \in HexSide :
                    OutOfBounds(neighbor_positions(p)[s])
                        => LookupFindsNoTile(neighbor_positions(p)[s])

IncidentRoads(sp) ==
    {r \in 1..Len(road_settle_places) :
        road_settle_places[r][1] = sp \/ road_settle_places[r][2] = sp}

\* C7: for every in-bounds, non-overlapping, connected placement the inverter
\* never takes the capacity panic: no settle place gets a 4th road.
C7_NoFourthRoad ==
    Connected =>
        /\ fault # "capacity"
        /\ TraversalReturned =>
             \A sp \in 0..(settle_places_count - 1) :
                Cardinality(IncidentRoads(sp)) <= ArrayVecCapacity

Elements(seq) == {seq[i] : i \in 1..Len(seq)}

\* C8: the inverter's result is the exact inverse of road -> endpoints: every
\* road visited so far (all of them once the inverter is done) is in the
\* collections of both its endpoints, every RoadID in the collection of settle
\* place p is a road with endpoint p, and there are settle_places_count
\* collections.
C8_InverseIsExact ==
    pc \in {"invert", "done"} =>
        /\ Len(settle_place_roads) = settle_places_count
        /\ pc = "done" => road_idx = Len(road_settle_places)
        /\ \A r \in 0..(road_idx - 1) :
             /\ r \in Elements(adjacency_index(settle_place_roads,
                                               adjacency_index(road_settle_places, r)[1]))
             /\ r \in Elements(adjacency_index(settle_place_roads,
                                               adjacency_index(road_settle_places, r)[2]))
        /\ \A sp \in 0..(Len(settle_place_roads) - 1) :
             \A r \in Elements(adjacency_index(settle_place_roads, sp)) :
                /\ adjacency_in_range(road_settle_places, r)
                /\ sp \in Elements(adjacency_index(road_settle_places, r))

\* C8 witness: the inverter has finished for a map of at least two tiles, where
\* a shared settle place has three roads.
C8_Witness ==
    /\ pc = "done"
    /\ Len(tile_roads) >= 2
    /\ \E sp \in 1..Len(settle_place_roads) : Len(settle_place_roads[sp]) = 3

TimesProcessed(t) ==
    Cardinality({k \in 1..Len(visit_order) : visit_order[k][1] = t})

\* C9: when traverse_tiles stops, every tile reachable from tile 0 through
\* side-adjacent placed tiles was processed exactly once, with one entry
\* appended to each per-tile table, no other tile was processed, and the
\* traversal did not panic.
C9_ReachableProcessedOnce ==
    /\ \A t \in Tiles : t \notin Reachable => TimesProcessed(t) = 0
    /\ pc # "traverse" =>
         /\ fault \notin TraversalPanics
         /\ \A t \in Reachable : TimesProcessed(t) = 1
         /\ Len(tile_settle_places) = Cardinality(Reachable)
         /\ Len(tile_roads) = Cardinality(Reachable)

\* C10: traverse_tiles stops only by leaving the loop with an empty queue, and
\* it processes at most as many tiles as the placement lists.
C10_TerminatesWithEmptyQueue ==
    /\ pc # "traverse" => (TraversalReturned /\ queue = << >>)
    /\ Len(visit_order) <= Len(tile_placement)

VertexValues ==
    {tile_settle_places[t][v] : t \in 1..Len(tile_settle_places), v \in HexVertex}
RoadValues ==
    {tile_roads[t][s] : t \in 1..Len(tile_roads), s \in HexSide}

\* C11: IDs are dense. With N = settle_places_count and R the length of the
\* road -> endpoints table, the values of the per-tile vertex table are exactly
\* 0..N-1 and the values of the per-tile road table are exactly 0..R-1, after
\* every completed iteration (an iteration that panics on a table index stops
\* between allocating IDs and storing them).
C11_IdsAreDense ==
    fault # "table_index" =>
        /\ VertexValues = 0..(settle_places_count - 1)
        /\ RoadValues = 0..(Len(road_settle_places) - 1)

\* C11 witness: three tiles were processed and share IDs (13 settle places for
\* 18 vertex entries).
C11_Witness ==
    /\ pc = "done"
    /\ Len(tile_settle_places) = 3
    /\ settle_places_count = 13
    /\ Len(road_settle_places) = 15


\* The positions whose six neighbour coordinates neighbor_positions computes
\* without leaving u8.
InteriorPositions == {p \in Elements(tile_placement) : ~neighbor_positions_overflows(p)}

\* C20: every entry of settle_places_lookup is geometrically right: for each
\* vertex v and each listed pair <<s, v2>>, corner v2 of the cell that
\* neighbor_positions gives across side s is the same physical corner as
\* corner v of the cell itself, in even and in odd rows.
C20_LookupIsGeometric ==
    \A p \in InteriorPositions, v \in HexVertex, k \in 1..2 :
        LET s == settle_places_lookup[v][k][1]
            v2 == settle_places_lookup[v][k][2]
        IN  Corner(neighbor_positions(p)[s], v2) = Corner(p, v)

\* C13: a placement that is not connected from tile 0 never reaches the end of
\* decode_config: the unreached tile is detected and no game state is returned.
C13_DisconnectedIsRejected ==
    (~Connected) => pc # "done"


\* The entry pushed by the last completed iteration.
LastVertices == tile_settle_places[Len(tile_settle_places)]
LastRoads == tile_roads[Len(tile_roads)]
\* The last iteration that looked at its neighbours found none Processed.
NoProcessedNeighbour == \A s \in HexSide : neighbor_status[s].kind # "Processed"

\* C14: a tile processed with no Processed neighbour gets the 6 newest
\* SettlePlaceIDs, consecutive in vertex order, and the 6 newest RoadIDs,
\* consecutive in side order, each road joining the IDs of
\* connected_vertices(side) in that orientation; the single tile at (1,1) of a
\* 3x3 map gets settle places 0..5 and roads 0..5, and after inversion every
\* settle place has exactly 2 roads.
C14_FreshTileGetsConsecutiveIds ==
    /\ (Len(tile_settle_places) >= 1 /\ NoProcessedNeighbour) =>
         LET n == settle_places_count - 6
             r == Len(road_settle_places) - 6
         IN  /\ Len(tile_roads) = Len(tile_settle_places)
             /\ n >= 0 /\ r >= 0
             /\ \A i \in 1..6 : LastVertices[HexVertices[i]] = n + i - 1
             /\ \A i \in 1..6 : LastRoads[HexSides[i]] = r + i - 1
             /\ \A i \in 1..6 :
                    adjacency_index(road_settle_places, r + i - 1)
                      = <<LastVertices[connected_vertices(HexSides[i])[1]],
                          LastVertices[connected_vertices(HexSides[i])[2]]>>
             /\ \A k \in 1..(Len(tile_settle_places) - 1), v \in HexVertex :
                    tile_settle_places[k][v] < n
             /\ \A k \in 1..(Len(tile_roads) - 1), s \in HexSide :
                    tile_roads[k][s] < r
    /\ (map_size = <<3, 3>> /\ tile_placement = << <<1, 1>> >> /\ pc = "done") =>
         /\ settle_places_count = 6
         /\ Len(road_settle_places) = 6
         /\ Len(settle_place_roads) = 6
         /\ \A sp \in 1..6 : Len(settle_place_roads[sp]) = 2

C14_Witness ==
    /\ map_size = <<3, 3>> /\ tile_placement = << <<1, 1>> >> /\ pc = "done"
    /\ NoProcessedNeighbour
    /\ LastVertices["South"] = 5 /\ LastRoads["SouthEast"] = 5


----------------------------------------------------------------------------
(* decode_config: the entry, for any player count and any placement list *)

\* Player counts around the accepted range and at the ends of u8.
PlayerCounts == {0, 1, 2, 3, 4, 5, U8 - 1}

\* Every [x, y] below MaxCoord, inside the map or not.
AnyPositions == (0..(MaxCoord - 1)) \X (0..(MaxCoord - 1))
\* Placement lists as a config file may hold them: empty, out of the map,
\* with a position listed twice.
AnyPlacements ==
    {<< >>} \cup {<<p>> : p \in AnyPositions} \cup {<<p, q>> : p, q \in AnyPositions}

\* A range check that leaves out the upper end, 2..4 for 2..=4.
valid_player_count_exclusive(n) == n \in 2..3

\* Line 72: (2..=4).contains(&player_count).
valid_player_count(n) == n \in 2..4

ConfigInit ==
    /\ map_size \in MapSizes
    /\ tile_placement \in AnyPlacements
    /\ overflow_checks \in BOOLEAN
    /\ player_count \in PlayerCounts
    /\ error = << >>
    /\ pc = "start"
    /\ queue = << >>
    /\ FreshRun
    /\ first_run = << >>
    /\ hash_seed = 0
    /\ NewList
    /\ NewVec

\* Lines 72-74: return Err(InvalidPlayerCount(player_count)).
RejectPlayerCount ==
    /\ pc = "start"
    /\ ~valid_player_count(player_count)
    /\ pc' = "error"
    /\ error' = <<player_count>>
    /\ UNCHANGED <<rerun_vars, list_vars, vec_vars, player_count, map_size,
                   tile_placement, overflow_checks, fault, queue, processed_tiles,
                   settle_places_count, tile_settle_places, tile_roads,
                   road_settle_places, neighbor_status, visit_order,
                   settle_place_roads, road_idx>>

\* derive_2d_map writes every listed position into the grid.
placement_fits_grid == \A k \in 1..Len(tile_placement) : matrix_in_range(tile_placement[k])

\* Lines 77-83 and 137-150: the count is accepted, traverse_tiles seeds the
\* queue with tile 0 and builds the grid.
StartTraversal ==
    /\ pc = "start"
    /\ valid_player_count(player_count)
    /\ tile_placement # << >>
    /\ placement_fits_grid
    /\ pc' = "traverse"
    /\ queue' = << <<0, tile_placement[1]>> >>
    /\ UNCHANGED <<outside_vars, map_size, tile_placement, overflow_checks, fault,
                   processed_tiles, settle_places_count, tile_settle_places,
                   tile_roads, road_settle_places, neighbor_status, visit_order,
                   settle_place_roads, road_idx>>

\* Line 138, tile_placement[0] of an empty list, or line 247, map_2d[pos] of a
\* position outside the grid: index out of bounds panic.
StartPanic ==
    /\ pc = "start"
    /\ valid_player_count(player_count)
    /\ tile_placement = << >> \/ ~placement_fits_grid
    /\ pc' = "fault"
    /\ fault' = IF tile_placement = << >> THEN "no_tile_0" ELSE "grid_index"
    /\ UNCHANGED <<outside_vars, map_size, tile_placement, overflow_checks, queue,
                   processed_tiles, settle_places_count, tile_settle_places,
                   tile_roads, road_settle_places, neighbor_status, visit_order,
                   settle_place_roads, road_idx>>

ConfigNext ==
    \/ RejectPlayerCount
    \/ StartTraversal
    \/ StartPanic

ConfigSpec == ConfigInit /\ [][ConfigNext]_vars

\* C15: decode_config returns InvalidPlayerCount(n) exactly when the player
\* count n is outside 2..=4, whatever the map and the placement list (empty,
\* out of the map, overlapping): on that path nothing panics and nothing is
\* built, and a count in 2..=4 never gives InvalidPlayerCount.
C15_InvalidPlayerCountExactly ==
    /\ error # << >> =>
         /\ player_count \notin 2..4
         /\ error = <<player_count>>
         /\ pc = "error"
         /\ queue = << >>
         /\ FreshRun
    /\ (pc # "start" /\ player_count \notin 2..4) =>
         /\ pc = "error"
         /\ error = <<player_count>>
    /\ player_count \in 2..4 => error = << >>

C15_Witness ==
    /\ pc = "error"
    /\ error = <<U8 - 1>>
    /\ tile_placement = << >>


----------------------------------------------------------------------------
(* adjacency_list.rs and ids.rs: a table keyed by TileID, used on its own *)

\* No decode_config call is in progress.
NoDecode ==
    /\ map_size = <<3, 3>>
    /\ tile_placement = << <<1, 1>> >>
    /\ overflow_checks = TRUE
    /\ player_count = TestPlayerCount
    /\ error = << >>
    /\ pc = "idle"
    /\ queue = << >>
    /\ FreshRun
    /\ first_run = << >>
    /\ hash_seed = 0

\* Width in bits of the key: int_wrapper!(TileID, u8).
ListIdBits == 8
\* The first ListVaried pushes take any value of ListValues, the later ones
\* a fixed value.
ListVaried == 2
ListValues == {"Desert", "Field", "Forest"}
ListInputs == IF Len(list_values) < ListVaried THEN ListValues ELSE {"Desert"}

\* A conversion that truncates like `as` does.
id_try_from_wrapping(n, bits) == {n % (2 ^ bits)}

\* int_wrapper's TryFrom<usize>: {} is Err(TryFromIntError), {n} is Ok(K(n)).
id_try_from(n, bits) == IF n < 2 ^ bits THEN {n} ELSE {}

\* Line 59: self.values.len().try_into()
list_id == id_try_from(adjacency_push_id(list_values), ListIdBits)

ListInit == NoDecode /\ NewList /\ NewVec

\* AdjacencyList::push, lines 58-62, when unwrap() succeeds.
ListPush(value) ==
    /\ ~list_fault
    /\ list_id # {}
    /\ list_values' = adjacency_push(list_values, value)
    /\ list_pushed' = Append(list_pushed, <<CHOOSE id \in list_id : TRUE, value>>)
    /\ UNCHANGED <<list_fault, traversal_vars, config_vars, rerun_vars, vec_vars>>

\* Line 59: unwrap() of Err panics; line 60 is not reached.
ListPushPanics ==
    /\ ~list_fault
    /\ list_id = {}
    /\ list_fault' = TRUE
    /\ UNCHANGED <<list_values, list_pushed, traversal_vars, config_vars,
                   rerun_vars, vec_vars>>

ListNext ==
    \/ \E value \in ListInputs : ListPush(value)
    \/ ListPushPanics

ListSpec == ListInit /\ [][ListNext]_vars

ReturnedIds == {list_pushed[k][1] : k \in 1..Len(list_pushed)}

\* C16: the k-th push (k = 0, 1, 2, ...) returns the ID k, the length of the
\* table just before the insertion; no ID is returned twice; and at every
\* later point the table indexed with a returned ID holds the value that was
\* pushed with it.
C16_PushReturnsLengthAndKeepsValues ==
    /\ \A k \in 1..Len(list_pushed) :
          /\ list_pushed[k][1] = k - 1
          /\ adjacency_in_range(list_values, list_pushed[k][1])
          /\ adjacency_index(list_values, list_pushed[k][1]) = list_pushed[k][2]
    /\ Cardinality(ReturnedIds) = Len(list_pushed)

C16_Witness ==
    /\ Len(list_pushed) = 3
    /\ list_pushed[1][2] # list_pushed[2][2]
    /\ adjacency_index(list_values, 1) = "Forest"

\* C17: push panics exactly when the length is not representable in the key
\* (256 entries for a u8 TileID key); it panics before the value is stored,
\* so every entry has a representable ID, and no ID wraps around to one
\* that was returned before.
C17_PushFailsAtKeyWidth ==
    /\ list_fault => Len(list_values) = 2 ^ ListIdBits
    /\ Len(list_values) <= 2 ^ ListIdBits
    /\ Len(list_values) = Len(list_pushed)
    /\ ReturnedIds = 0..(Len(list_values) - 1)

C17_Witness ==
    /\ list_fault
    /\ Len(list_pushed) = 2 ^ ListIdBits
    /\ list_pushed[2 ^ ListIdBits][1] = 2 ^ ListIdBits - 1

----------------------------------------------------------------------------
(* array_vec.rs: an ArrayVec<RoadID, 3> used on its own *)

VecValues == 0..ArrayVecCapacity

VecInit == NoDecode /\ NewList /\ NewVec

vec_now == array_vec_as_ref(vec_storage, vec_size)

\* push, lines 24-36: the assertion holds, the slot is written, size grows.
VecPush(value) ==
    /\ ~vec_fault
    /\ vec_drop_iter = {}
    /\ array_vec_has_room(vec_now)
    /\ vec_storage' = array_vec_write(vec_storage, vec_size, value)
    /\ vec_size' = vec_size + 1
    /\ vec_pushed' = Append(vec_pushed, value)
    /\ UNCHANGED <<vec_fault, vec_drop_iter, vec_released, traversal_vars,
                   config_vars, rerun_vars, list_vars>>

\* push, line 24: assert!(self.size < N) fails.
VecPushPanics ==
    /\ ~vec_fault
    /\ vec_drop_iter = {}
    /\ ~array_vec_has_room(vec_now)
    /\ vec_fault' = TRUE
    /\ UNCHANGED <<vec_storage, vec_size, vec_pushed, vec_drop_iter, vec_released,
                   traversal_vars, config_vars,
                   rerun_vars, list_vars>>

VecNext ==
    \/ \E value \in VecValues : VecPush(value)
    \/ VecPushPanics

VecSpec == VecInit /\ [][VecNext]_vars

\* C18: a push with size < N appends the value at the end and adds exactly 1
\* to size; a push with size = N panics and neither drops nor overwrites an
\* element; so 0 <= size <= N always, and the readable contents are exactly
\* the pushed values in push order.
C18_PushAppendsOrPanics ==
    /\ vec_size \in 0..ArrayVecCapacity
    /\ vec_size = Len(vec_pushed)
    /\ \A i \in 0..(vec_size - 1) : vec_storage[i] # {}
    /\ \A i \in vec_size..(ArrayVecCapacity - 1) : vec_storage[i] = {}
    /\ vec_now = vec_pushed
    /\ vec_fault => vec_size = ArrayVecCapacity

C18_Witness ==
    /\ vec_fault
    /\ vec_now = <<2, 0, 3>>


----------------------------------------------------------------------------
(* Two calls of decode_config, one after the other *)

\* Keys a HashSet::new() may draw for its hasher.
HashSeeds == {0, 1}

\* decode_config has returned Ok, or panicked in the inverter, after
\* traverse_tiles returned.
RunReturned == pc = "done" \/ (pc = "fault" /\ fault = "capacity")

\* The input and everything the run produced.
ThisRun ==
    [placement |-> tile_placement,
     order |-> visit_order,
     tile_settle_places |-> tile_settle_places,
     tile_roads |-> tile_roads,
     road_settle_places |-> road_settle_places,
     settle_places_count |-> settle_places_count,
     settle_place_roads |-> settle_place_roads,
     outcome |-> <<pc, fault>>]

\* A second call on the same map with the given placement list: all locals are
\* created anew, the HashSet with a newly keyed hasher.
Restart(placement) ==
    /\ first_run = << >>
    /\ RunReturned
    /\ first_run' = <<ThisRun>>
    /\ hash_seed' \in HashSeeds \ {hash_seed}
    /\ tile_placement' = placement
    /\ pc' = "traverse"
    /\ queue' = << <<0, placement[1]>> >>
    /\ fault' = "none"
    /\ processed_tiles' = {}
    /\ settle_places_count' = 0
    /\ tile_settle_places' = << >>
    /\ tile_roads' = << >>
    /\ road_settle_places' = << >>
    /\ neighbor_status' = NoStatus
    /\ visit_order' = << >>
    /\ settle_place_roads' = << >>
    /\ road_idx' = 0
    /\ UNCHANGED <<map_size, overflow_checks, config_vars, list_vars, vec_vars>>

\* The same call again.
Rerun == Restart(tile_placement)

\* The same tiles listed in another order.
Reorder ==
    /\ first_run = << >>
    /\ RunReturned
    /\ \E perm \in Permutations(1..Len(tile_placement)) :
          LET placement == [i \in 1..Len(tile_placement) |-> tile_placement[perm[i]]]
          IN  /\ placement # tile_placement
              /\ Restart(placement)

RerunNext == Next \/ Rerun
RerunSpec == Init /\ [][RerunNext]_vars

PairNext == Next \/ Reorder
PairSpec == Init /\ [][PairNext]_vars

FirstRun == first_run[1]
\* The TileID of the tile at position p in a placement list.
IdAt(placement, p) == (CHOOSE k \in 1..Len(placement) : placement[k] = p) - 1

\* C12: two placement lists of the same positions in different orders, each
\* connected from its index 0, group the (position, vertex) pairs and the
\* (position, side) pairs into the same classes of equal ID.
C12_SharingIsOrderIndependent ==
    (first_run # << >> /\ RunReturned /\ Connected) =>
        /\ Len(tile_settle_places) = Len(tile_placement)
        /\ Len(FirstRun.tile_settle_places) = Len(tile_placement)
        /\ Len(tile_roads) = Len(tile_placement)
        /\ Len(FirstRun.tile_roads) = Len(tile_placement)
        /\ \A p, q \in Elements(tile_placement), v, w \in HexVertex :
              (StoredVertex(IdAt(tile_placement, p), v)
                 = StoredVertex(IdAt(tile_placement, q), w))
              <=> (adjacency_index(FirstRun.tile_settle_places,
                                   IdAt(FirstRun.placement, p))[v]
                     = adjacency_index(FirstRun.tile_settle_places,
                                       IdAt(FirstRun.placement, q))[w])
        /\ \A p, q \in Elements(tile_placement), s, t \in HexSide :
              (StoredRoad(IdAt(tile_placement, p), s)
                 = StoredRoad(IdAt(tile_placement, q), t))
              <=> (adjacency_index(FirstRun.tile_roads,
                                   IdAt(FirstRun.placement, p))[s]
                     = adjacency_index(FirstRun.tile_roads,
                                       IdAt(FirstRun.placement, q))[t])

----------------------------------------------------------------------------
(* Properties of the tables during the traversal *)

EndpointValues ==
    {road_settle_places[r][i] : r \in 1..Len(road_settle_places), i \in 1..2}

\* C21: no forward references. In every reachable state of the traversal every
\* SettlePlaceID stored in a tile's vertex table or as a road endpoint is less
\* than the settle place counter, and every RoadID stored in a tile's road
\* table is less than the length of the road -> endpoints table.
C21_NoForwardReferences ==
    /\ \A id \in VertexValues : id < settle_places_count
    /\ \A id \in EndpointValues : id < settle_places_count
    /\ \A id \in RoadValues : id < Len(road_settle_places)

C21_Witness ==
    /\ pc = "traverse"
    /\ Len(tile_settle_places) = 2
    /\ settle_places_count - 1 \in EndpointValues
    /\ \E v \in HexVertex : tile_settle_places[2][v] < 6


\* The two neighbours that settle_places_lookup names for vertex v were both
\* Processed when the latest iteration resolved its vertices.
BothProcessed(v) ==
    /\ neighbor_status[settle_places_lookup[v][1][1]].kind = "Processed"
    /\ neighbor_status[settle_places_lookup[v][2][1]].kind = "Processed"

FirstCandidate(v) ==
    adjacency_index(tile_settle_places,
                    neighbor_status[settle_places_lookup[v][1][1]].id)
        [settle_places_lookup[v][1][2]]
SecondCandidate(v) ==
    adjacency_index(tile_settle_places,
                    neighbor_status[settle_places_lookup[v][2][1]].id)
        [settle_places_lookup[v][2][2]]
\* The latest iteration that looked at its neighbours pushed its entry.
LastIterationStored == Len(tile_settle_places) >= 1 /\ fault # "table_index"

HeadIsProcessed ==
    /\ pc = "traverse"
    /\ queue # << >>
    /\ queue[1][1] \in processed_tiles

\* C23: popping a queue entry whose tile is already in the processed set only
\* removes that entry: the processed set, the settle place counter, the two
\* per-tile tables and the road -> endpoints table are unchanged and nothing
\* is enqueued; a tile may sit in the queue several times and is processed
\* at most once.
C23_SkipOnlyPops ==
    /\ [][HeadIsProcessed =>
            /\ queue' = Tail(queue)
            /\ UNCHANGED <<processed_tiles, settle_places_count, tile_settle_places,
                           tile_roads, road_settle_places>>]_vars
    /\ [](\A t \in Tiles : TimesProcessed(t) <= 1)

\* Tile 2 of the three tile map was enqueued by tile 0 and by tile 1; its
\* second entry has been popped.
C23_Witness ==
    /\ map_size = <<4, 4>>
    /\ tile_placement = << <<1, 1>>, <<2, 1>>, <<2, 2>> >>
    /\ pc = "traverse"
    /\ queue = << >>
    /\ Len(tile_settle_places) = 3


----------------------------------------------------------------------------
(* array_vec.rs: Drop *)

drop_slice == array_vec_as_mut(vec_storage, vec_size)

\* Drop::drop is entered, by scope exit or by the unwinding of a panic; the
\* for loop takes (&mut *self).into_iter(), a slice iterator over as_mut().
VecDropStart ==
    /\ vec_drop_iter = {}
    /\ vec_drop_iter' = {0}
    /\ UNCHANGED <<vec_storage, vec_size, vec_pushed, vec_fault, vec_released,
                   traversal_vars, config_vars, rerun_vars, list_vars>>

\* One iteration of the loop: drop_in_place on the next item of the slice.
VecDropStep ==
    \E k \in vec_drop_iter :
        /\ k < Len(drop_slice)
        /\ vec_released' = [vec_released EXCEPT ![drop_slice[k + 1]] = @ + 1]
        /\ vec_drop_iter' = {k + 1}
        /\ UNCHANGED <<vec_storage, vec_size, vec_pushed, vec_fault,
                       traversal_vars, config_vars, rerun_vars, list_vars>>

DropNext ==
    \/ \E value \in VecValues : VecPush(value)
    \/ VecPushPanics
    \/ VecDropStart
    \/ VecDropStep

DropSpec == VecInit /\ [][DropNext]_vars

\* The loop of Drop::drop has run to its end.
DropFinished == \E k \in vec_drop_iter : k >= Len(drop_slice)

\* C24: teardown of an ArrayVec after any sequence of pushes destroys exactly
\* the slots with index in [0, size), each exactly once, and touches no slot
\* at index >= size: no release of uninitialised storage, no double release,
\* no leaked element.
C24_DropReleasesInitialisedPrefix ==
    /\ \A i \in 0..(ArrayVecCapacity - 1) :
          /\ vec_released[i] <= 1
          /\ vec_released[i] >= 1 => (i < vec_size /\ vec_storage[i] # {})
    /\ DropFinished =>
          \A i \in 0..(ArrayVecCapacity - 1) :
              vec_released[i] = (IF i < vec_size THEN 1 ELSE 0)

C24_Witness ==
    /\ DropFinished
    /\ vec_size = 2
    /\ vec_released[1] = 1
    /\ vec_released[2] = 0


----------------------------------------------------------------------------
(* Properties of the hex geometry *)

\* The last cells before the upper end of u8 whose neighbours stay inside u8,
\* one of an even and one of an odd row.
FarPositions == {<<U8 - 2, U8 - 2>>, <<U8 - 2, U8 - 3>>}

----------------------------------------------------------------------------
(* Properties of the finished tables *)

\* The two endpoints stored for road r, as a set.
EndpointsOf(r) ==
    {adjacency_index(road_settle_places, r)[1], adjacency_index(road_settle_places, r)[2]}

\* C26: after the traversal of an in-bounds, non-overlapping, connected
\* placement, for every processed tile t and side s the endpoints recorded for
\* the road that t stores at s are, as a set, the two SettlePlaceIDs that t
\* stores at connected_vertices(s), also when the road was copied from a
\* neighbour.
C26_RoadEndpointsMatchTile ==
    (TraversalReturned /\ Connected) =>
        \A t \in 1..Len(tile_roads), s \in HexSide :
            /\ adjacency_in_range(road_settle_places, tile_roads[t][s])
            /\ EndpointsOf(tile_roads[t][s])
                 = {tile_settle_places[t][connected_vertices(s)[1]],
                    tile_settle_places[t][connected_vertices(s)[2]]}


\* The per-tile vertex table as it was when the latest iteration resolved its
\* vertices: without the entry that the iteration pushed itself.
TableAtResolution ==
    IF fault = "table_index" \/ tile_settle_places = << >>
    THEN tile_settle_places
    ELSE SubSeq(tile_settle_places, 1, Len(tile_settle_places) - 1)

\* The ID that pair k of v's lookup entry leads to, at resolution.
Candidate(v, k) ==
    adjacency_index(TableAtResolution,
                    neighbor_status[settle_places_lookup[v][k][1]].id)
        [settle_places_lookup[v][k][2]]
CandidateReadable(v, k) ==
    adjacency_in_range(TableAtResolution,
                       neighbor_status[settle_places_lookup[v][k][1]].id)

\* C27: whenever both neighbours named by a vertex's lookup entry are
\* Processed, the two SettlePlaceIDs they hold for that corner are equal, so
\* taking the first one never changes the result and hides no disagreement.
C27_CandidatesAgree ==
    \A v \in HexVertex :
        (BothProcessed(v) /\ CandidateReadable(v, 1) /\ CandidateReadable(v, 2)) =>
            Candidate(v, 1) = Candidate(v, 2)


\* C28: after the traversal of an in-bounds, non-overlapping, connected
\* placement every processed tile's 6 vertex entries are pairwise distinct
\* SettlePlaceIDs, its 6 side entries are pairwise distinct RoadIDs, and the
\* two endpoints of every road differ.
C28_EntriesAreDistinct ==
    (TraversalReturned /\ Connected) =>
        /\ \A t \in 1..Len(tile_settle_places), v, w \in HexVertex :
              v # w => tile_settle_places[t][v] # tile_settle_places[t][w]
        /\ \A t \in 1..Len(tile_roads), s, u \in HexSide :
              s # u => tile_roads[t][s] # tile_roads[t][u]
        /\ \A r \in 1..Len(road_settle_places) :
              road_settle_places[r][1] # road_settle_places[r][2]

====
